---- MODULE Spec2Model ----
(***************************************************************************)
(* Model of osc-plugin-factory: the check_source review bot                *)
(* (check_source.py) and the staging plugin's command dispatcher           *)
(* (osc-staging.py, osclib/ignore_command.py).                             *)
(***************************************************************************)
EXTENDS Integers, Sequences, FiniteSets, TLC

(***************************************************************************)
(* Bounds of the model.                                                    *)
(***************************************************************************)
\* largest number of packages the devel search may report
MaxMatches == 1
\* largest number of non-DIFFCOUNT lines the source checker prints
MaxLines == 1

(***************************************************************************)
(* Values.                                                                 *)
(***************************************************************************)
\* python's None
None == "None"

\* python truthiness of a string-or-None
Truthy(x) == x # None /\ x # ""

TargetProject == "openSUSE:Factory"
SourceProjects == {"devel:tools", "home:user"}
Packages == {"foo", "bar"}
Versions == {"1.0", "2.0"}
Revisions == {"r1"}

\* the numbers a DIFFCOUNT line may carry: around the threshold, and one that
\* is larger than the threshold
DiffCounts == {0, 3, 8, 9, 20}

\* check_source.py:27-28
DefaultReviewTeam == "opensuse-review-team"
DefaultRepoChecker == "factory-repo-checker"
\* check_source.py:25
DefaultWhitelistFile == "check_source.whitelist"

\* the content of the whitelist files (one project per line)
WhitelistFileContent(file) ==
    IF file = DefaultWhitelistFile THEN {} ELSE {"devel:tools"}

\* ReviewBot.DEFAULT_REVIEW_MESSAGES
DEFAULT_REVIEW_MESSAGES == [accepted |-> <<"ok">>, declined |-> <<"review failed">>]

\* the actions a request may carry
SubmitActions ==
    { [type |-> "submit", src_project |-> sp, src_package |-> spk, src_rev |-> "r1",
       tgt_project |-> TargetProject, tgt_package |-> tp] :
        sp \in SourceProjects, spk \in Packages, tp \in Packages }

OtherActions ==
    { [type |-> t, src_project |-> None, src_package |-> None, src_rev |-> None,
       tgt_project |-> TargetProject, tgt_package |-> tp] :
        t \in {"delete", "add_role"}, tp \in {"foo", None} }
    \cup
    { [type |-> t, src_project |-> None, src_package |-> None, src_rev |-> None,
       tgt_project |-> TargetProject, tgt_package |-> "foo"] :
        t \in {"change_devel", "set_bugowner"} }

Actions == SubmitActions \cup { a \in OtherActions :
                                  ~(a.type = "delete" /\ a.tgt_package = None) }

SecondAction ==
    [type |-> "submit", src_project |-> "devel:tools", src_package |-> "foo", src_rev |-> "r1",
     tgt_project |-> TargetProject, tgt_package |-> "foo"]

\* requests: the list of actions of a request (len 0, 1 or 2)
Requests ==
    {<< >>} \cup { <<a>> : a \in Actions } \cup { <<a, SecondAction>> : a \in Actions }

\* the command line options of check_source.py
Options ==
    [ignore_devel : BOOLEAN, devel_whitelist_file : {None, "my.whitelist"},
     review_team : {None, "my-team"}, repo_checker : {None, "my-checker"},
     skip_add_reviews : BOOLEAN]

\* answers of the devel lookup (ReviewBot.get_devel_project)
DevelResults == {<<None, None>>, <<"devel:tools", "foo">>, <<"devel:tools", "bar">>}

\* the parsed source info of a package, or a failed GET
SourceInfoResponses ==
    { [error |-> TRUE, name |-> None, version |-> None] }
    \cup
    { [error |-> FALSE, name |-> n, version |-> v] :
        n \in Packages \cup {None}, v \in Versions \cup {None} }

\* a line printed by source-checker.pl
TextLine == [word |-> "warning", n |-> 0]
DiffCountLine(n) == [word |-> "DIFFCOUNT", n |-> n]

RECURSIVE TextLines(_)
TextLines(k) == IF k = 0 THEN << >> ELSE <<TextLine>> \o TextLines(k - 1)

\* the outputs of source-checker.pl: some text lines, then an optional
\* DIFFCOUNT line
CheckerOutputs ==
    { TextLines(k) : k \in 0..MaxLines }
    \cup
    { TextLines(k) \o <<DiffCountLine(n)>> : k \in 0..MaxLines, n \in DiffCounts }

(***************************************************************************)
(* State.                                                                  *)
(***************************************************************************)
VARIABLES
    pc,               \* position of the bot
    bot,              \* CheckSource's fields set by __init__ / setup_checker
    request,          \* the request under review: its list of actions
    review_messages,  \* self.review_messages
    reviews,          \* reviews attached to the request (add_review)
    verdict,          \* what check_one_request returned
    evaluated,        \* the rules evaluated so far, in order
    declined_by,      \* the rule that declined
    devel,            \* answer of get_devel_project
    matches,          \* answer of the devel search
    old_info,         \* parsed info of the target package
    new_info,         \* parsed info of the source package
    http_errors,      \* the remote calls that raised urllib2.HTTPError
    checker,          \* exit status and output lines of source-checker.pl
    sourceinfo,       \* answer of the source info query of a delete request
    new_version,      \* NEW_VERSION hint
    diff,             \* the diff magnitude
    lock,             \* per project: the invocation holding the OBS lock, or 0
    inv,              \* per invocation of 'osc staging': command line, position, locals
    ignored,          \* per project: the persisted ignore list, request id -> message
    staged,           \* per project: the staging each request is in
    frozen,           \* per project: the stagings frozen so far
    comments,         \* the comments added to requests
    additional        \* per project: the packages marked for the repo checker

cs_vars == <<pc, bot, request, review_messages, reviews, verdict, evaluated, declined_by,
             devel, matches, old_info, new_info, http_errors, checker, sourceinfo,
             new_version, diff>>

st_vars == <<lock, inv, ignored, staged, frozen, comments, additional>>

vars == <<cs_vars, st_vars>>

NoInfo == [name |-> None, version |-> None]

(***************************************************************************)
(* check_source.py                                                         *)
(***************************************************************************)

\* CheckSource.__init__
CheckSourceStart ==
    /\ pc = "setup"
    /\ bot = [ignore_devel |-> FALSE,
              devel_whitelist_file |-> DefaultWhitelistFile,
              devel_whitelist |-> {},
              devel_whitelist_loaded |-> FALSE,
              review_team |-> DefaultReviewTeam,
              repo_checker |-> DefaultRepoChecker,
              skip_add_reviews |-> FALSE]
    /\ review_messages = DEFAULT_REVIEW_MESSAGES
    /\ reviews = {}
    /\ verdict = "pending"
    /\ evaluated = << >>
    /\ declined_by = None
    /\ devel = <<None, None>>
    /\ matches = -1
    /\ old_info = NoInfo
    /\ new_info = NoInfo
    /\ http_errors = {}
    /\ checker = [ret |-> -1, checked |-> << >>]
    /\ sourceinfo = [error |-> FALSE, links |-> << >>]
    /\ new_version = None
    /\ diff = -1

\* the fields CommandLineInterface.setup_checker leaves in the bot
SetupFields(b, options) ==
    [b EXCEPT
       !.ignore_devel = IF options.ignore_devel THEN options.ignore_devel ELSE @,
       !.devel_whitelist_file =
            IF Truthy(options.devel_whitelist_file) THEN options.devel_whitelist_file ELSE @,
       !.review_team = IF Truthy(options.review_team) THEN options.review_team ELSE @,
       !.repo_checker = IF Truthy(options.repo_checker) THEN options.repo_checker ELSE @,
       !.skip_add_reviews = options.skip_add_reviews]

\* CommandLineInterface.setup_checker
setup_checker ==
    /\ pc = "setup"
    /\ \E options \in Options : bot' = SetupFields(bot, options)
    /\ pc' = "check_one_request"
    /\ UNCHANGED <<request, review_messages, reviews, verdict, evaluated, declined_by,
                   devel, matches, old_info, new_info, http_errors, checker,
                   new_version, diff, sourceinfo,
                   st_vars>>

\* ReviewBot.add_review: attach a reviewer to the request, once
add_review(rs, by, who, msg) == rs \cup {[by |-> by, who |-> who, msg |-> msg]}


\* the verdict a handler's return value stands for
Verdict(ret) == CASE ret = "True" -> "accepted"
                  [] ret = "False" -> "declined"
                  [] OTHER -> "untouched"

\* CheckSource.check_one_request: the single-action rule, then the dispatch
\* of ReviewBot.check_one_request
check_one_request ==
    /\ pc = "check_one_request"
    /\ evaluated' = Append(evaluated, "single_action")
    /\ IF Len(request) # 1
       THEN /\ review_messages' = [DEFAULT_REVIEW_MESSAGES EXCEPT
                                      !.declined = <<"Only one action per request">>]
            /\ verdict' = Verdict("False")
            /\ declined_by' = "single_action"
            /\ pc' = "done"
       ELSE /\ review_messages' = DEFAULT_REVIEW_MESSAGES
            /\ pc' = "check_action"
            /\ UNCHANGED <<verdict, declined_by>>
    /\ UNCHANGED <<bot, request, reviews, devel, matches, old_info, new_info,
                   http_errors, checker, new_version, diff, sourceinfo,
                   st_vars>>

\* the one action of the request being dispatched
action == request[1]

\* ReviewBot.check_one_request: the handler an action type is dispatched to
HandlerOf(type) ==
    CASE type = "submit" -> "check_source_submission"
      [] type = "delete" -> "check_action_delete"
      [] type = "add_role" -> "check_action_add_role"
      [] OTHER -> "check_action__default"

Dispatched(handler) == pc = "check_action" /\ HandlerOf(action.type) = handler

\* the message of check_action_add_role
AddRoleMessage(a, d) ==
    <<"Roles to packages are granted in the devel project, not in", a.tgt_project>>
    \o (IF a.tgt_package # None
        THEN <<"Please send this request to", d[1], d[2]>>
        ELSE << >>)

\* CheckSource.check_action_add_role
check_action_add_role ==
    /\ Dispatched("check_action_add_role")
    /\ \E d \in DevelResults :
         /\ devel' = (IF action.tgt_package # None THEN d ELSE devel)
         /\ review_messages' = [review_messages EXCEPT
                                   !.declined = AddRoleMessage(action, d)]
    /\ verdict' = Verdict("False")
    /\ declined_by' = "add_role"
    /\ pc' = "done"
    /\ UNCHANGED <<bot, request, reviews, evaluated, matches, old_info, new_info,
                   http_errors, checker, new_version, diff, sourceinfo,
                   st_vars>>

\* the answers of show_project_sourceinfo: a failed GET, or the list of the
\* 'linked' elements of the package's source info
Links == { [project |-> "openSUSE:Factory", package |-> "bar"],
           [project |-> "devel:tools", package |-> "baz"] }

LinkLists == {<< >>} \cup { <<l>> : l \in Links } \cup { <<l, m>> : l, m \in Links }

\* the message of a declined delete request
LinkedMessage(links) ==
    <<"This is an incorrect request, it's a linked package to",
      links[1].project, links[1].package>>

\* DeleteResult naming the last link instead of the first
DeleteResult_LastLink(msgs, a, error, links) ==
    IF error
    THEN [ret |-> "None", messages |-> msgs]
    ELSE IF Len(links) = 0
         THEN [ret |-> "True",
               messages |-> [msgs EXCEPT !.accepted = <<"Unhandled request type", a.type>>]]
         ELSE [ret |-> "False",
               messages |-> [msgs EXCEPT !.declined =
                    <<"This is an incorrect request, it's a linked package to",
                      links[Len(links)].project, links[Len(links)].package>>]]

\* the return value and the messages of check_action_delete, given the answer
\* of the source info query
DeleteResult(msgs, a, error, links) ==
    IF error
    THEN [ret |-> "None", messages |-> msgs]
    ELSE IF Len(links) = 0
         THEN [ret |-> "True",
               messages |-> [msgs EXCEPT !.accepted = <<"Unhandled request type", a.type>>]]
         ELSE [ret |-> "False",
               messages |-> [msgs EXCEPT !.declined = LinkedMessage(links)]]

\* CheckSource.check_action_delete
check_action_delete ==
    /\ Dispatched("check_action_delete")
    /\ \E error \in BOOLEAN, links \in LinkLists :
         /\ error => links = << >>
         /\ sourceinfo' = [error |-> error, links |-> links]
         /\ LET r == DeleteResult(review_messages, action, error, links)
            IN /\ review_messages' = r.messages
               /\ verdict' = Verdict(r.ret)
               /\ declined_by' = (IF r.ret = "False" THEN "delete" ELSE declined_by)
         /\ http_errors' = (IF error THEN http_errors \cup {"delete_sourceinfo"}
                                     ELSE http_errors)
    /\ pc' = "done"
    /\ UNCHANGED <<bot, request, reviews, evaluated, devel, matches, old_info, new_info,
                   checker, new_version, diff,
                   st_vars>>

\* CheckSource.check_action__default
check_action__default ==
    /\ Dispatched("check_action__default")
    /\ review_messages' = [review_messages EXCEPT
                              !.accepted = <<"Unhandled request type", action.type>>]
    /\ verdict' = Verdict("True")
    /\ pc' = "done"
    /\ UNCHANGED <<bot, request, reviews, evaluated, declined_by, devel, matches,
                   old_info, new_info, http_errors, checker, new_version, diff,
                   sourceinfo,
                   st_vars>>


\* CheckSource.is_devel_project, first half: the whitelist file is read once
LoadWhitelist(b) ==
    IF Truthy(b.devel_whitelist_file) /\ ~b.devel_whitelist_loaded
    THEN [b EXCEPT !.devel_whitelist = WhitelistFileContent(b.devel_whitelist_file),
                   !.devel_whitelist_loaded = TRUE]
    ELSE b

Whitelisted(b, source_project) ==
    LoadWhitelist(b).devel_whitelist_loaded
        /\ source_project \in LoadWhitelist(b).devel_whitelist

\* CheckSource.is_devel_project: m is the 'matches' attribute of the search for
\* packages of the target project whose devel project is the source project
is_devel_project(b, source_project, m) ==
    Whitelisted(b, source_project) \/ m # 0

NotDevelMessage(a) ==
    <<a.src_project, "is not a devel project of", a.tgt_project,
      "submit the package to a devel project first">>

ExpectedDevelMessage(d) == <<"Expected submission from devel package", d[1], d[2]>>

\* OwnershipRule with 'and' for 'or' in the comparison with the devel package
OwnershipRule_And(b, a, d, m) ==
    IF Truthy(d[1])
    THEN IF a.src_project # d[1] /\ a.src_package # d[2]
         THEN ExpectedDevelMessage(d)
         ELSE << >>
    ELSE IF ~is_devel_project(b, a.src_project, m)
         THEN NotDevelMessage(a)
         ELSE << >>

\* the ownership rule of check_source_submission: the decline message, or the
\* empty message when the rule passes
OwnershipRule(b, a, d, m) ==
    IF Truthy(d[1])
    THEN IF a.src_project # d[1] \/ a.src_package # d[2]
         THEN ExpectedDevelMessage(d)
         ELSE << >>
    ELSE IF ~is_devel_project(b, a.src_project, m)
         THEN NotDevelMessage(a)
         ELSE << >>

\* check_source_submission, lines 44-56: the ownership rule
check_devel ==
    /\ Dispatched("check_source_submission")
    /\ IF bot.ignore_devel
       THEN /\ pc' = "checkout_old"
            /\ UNCHANGED <<bot, review_messages, verdict, evaluated, declined_by,
                           devel, matches>>
       ELSE \E d \in DevelResults, m \in 0..MaxMatches :
              LET searched == ~Truthy(d[1]) /\ ~Whitelisted(bot, action.src_project)
                  msg == OwnershipRule(bot, action, d, m)
              IN /\ devel' = d
                 /\ matches' = (IF searched THEN m ELSE matches)
                 /\ bot' = (IF Truthy(d[1]) THEN bot ELSE LoadWhitelist(bot))
                 /\ evaluated' = Append(evaluated, "ownership")
                 /\ IF msg # << >>
                    THEN /\ review_messages' = [review_messages EXCEPT !.declined = msg]
                         /\ verdict' = Verdict("False")
                         /\ declined_by' = "ownership"
                         /\ pc' = "done"
                    ELSE /\ pc' = "checkout_old"
                         /\ UNCHANGED <<review_messages, verdict, declined_by>>
    /\ UNCHANGED <<request, reviews, old_info, new_info, http_errors, checker,
                   sourceinfo, new_version, diff,
                   st_vars>>

\* CheckSource.package_source_parse: name and version of the parsed source
\* info; both None when the GET fails
package_source_parse(resp) ==
    IF resp.error
    THEN [name |-> None, version |-> None]
    ELSE [name |-> resp.name, version |-> resp.version]

\* check_source_submission, lines 66-74: the target package is checked out and
\* parsed; a failed checkout is logged and leaves old_info without a version
checkout_old ==
    /\ pc = "checkout_old"
    /\ \E checkout_failed \in BOOLEAN, resp \in SourceInfoResponses :
         /\ checkout_failed => resp.error
         /\ old_info' = (IF checkout_failed THEN NoInfo ELSE package_source_parse(resp))
         /\ http_errors' = http_errors \cup
                (IF checkout_failed THEN {"target_checkout"}
                 ELSE IF resp.error THEN {"target_parse"} ELSE {})
    /\ pc' = "checkout_new"
    /\ UNCHANGED <<bot, request, review_messages, reviews, verdict, evaluated,
                   declined_by, devel, matches, new_info, checker, sourceinfo,
                   new_version, diff,
                   st_vars>>

NameMessage(a, info) ==
    <<"A package submitted as", a.tgt_package, "has to build as Name:", a.tgt_package,
      "found Name", info.name>>

\* IdentityRule comparing the new name with the old name instead of the
\* target package
IdentityRule_OldName(a, old, new) ==
    IF new.name # old.name THEN NameMessage(a, new) ELSE << >>

\* the identity rule of check_source_submission: the decline message, or the
\* empty message when the rule passes
IdentityRule(a, old, new) ==
    IF new.name # a.tgt_package THEN NameMessage(a, new) ELSE << >>

\* check_source_submission, lines 76-85: the source package is checked out
\* (a failure is not caught) and parsed, then the identity rule
checkout_new ==
    /\ pc = "checkout_new"
    /\ \E checkout_failed \in BOOLEAN, resp \in SourceInfoResponses :
         /\ checkout_failed => resp.error
         /\ IF checkout_failed
            THEN /\ http_errors' = http_errors \cup {"source_checkout"}
                 /\ verdict' = "raised"
                 /\ pc' = "done"
                 /\ UNCHANGED <<new_info, evaluated, review_messages, declined_by>>
            ELSE LET info == package_source_parse(resp)
                     msg == IdentityRule(action, old_info, info)
                 IN /\ new_info' = info
                    /\ http_errors' = http_errors \cup
                           (IF resp.error THEN {"source_parse"} ELSE {})
                    /\ evaluated' = Append(evaluated, "identity")
                    /\ IF msg # << >>
                       THEN /\ review_messages' = [review_messages EXCEPT !.declined = msg]
                            /\ verdict' = Verdict("False")
                            /\ declined_by' = "identity"
                            /\ pc' = "done"
                       ELSE /\ pc' = "source_checker"
                            /\ UNCHANGED <<review_messages, verdict, declined_by>>
    /\ UNCHANGED <<bot, request, reviews, devel, matches, old_info, checker,
                   sourceinfo, new_version, diff,
                   st_vars>>


\* check_source.py:124: the diff count above which the review team is asked
ReviewThreshold == 8
\* check_source.py:116: the diff when there is no new version to compare
UnknownDiff == 12345
\* check_source.py:118: the diff when the checker printed no DIFFCOUNT
NewPackageDiff == 13579

\* the exit statuses os.waitpid reports for the checker
ExitStatuses == {0, 256}

\* check_source_submission, lines 90-93: the NEW_VERSION hint
NewVersion(old, new) ==
    IF Truthy(old.version) /\ old.version # new.version THEN new.version ELSE None

EndsWithDiffCount(checked) ==
    Len(checked) # 0 /\ checked[Len(checked)].word = "DIFFCOUNT"

\* checked after checked.pop()
Popped(checked) == SubSeq(checked, 1, Len(checked) - 1)

\* '  '.join(checked): the words of the lines, in order
Output(checked) == [i \in 1..Len(checked) |-> checked[i].word]

\* DiffOf without the override for a missing new version
DiffOf_NoOverride(checked, nv) ==
    IF EndsWithDiffCount(checked)
    THEN checked[Len(checked)].n
    ELSE NewPackageDiff

\* check_source_submission, lines 110-118: the diff magnitude
DiffOf(checked, nv) ==
    IF EndsWithDiffCount(checked)
    THEN IF ~Truthy(nv) THEN UnknownDiff ELSE checked[Len(checked)].n
    ELSE NewPackageDiff

\* the lines left in checked after the DIFFCOUNT line is taken off
Remaining(checked) == IF EndsWithDiffCount(checked) THEN Popped(checked) ELSE checked

\* check_source_submission, lines 108 and 120-121: the accepted message
AcceptedMessage(checked) ==
    <<"Check script succeeded">>
    \o (IF Len(Remaining(checked)) # 0
        THEN <<"Output of check script (non-fatal):">> \o Output(Remaining(checked))
        ELSE << >>)

\* AddReviews with the review team asked from the threshold on
AddReviews_AtThreshold(b, rs, d) ==
    IF b.skip_add_reviews
    THEN rs
    ELSE LET team == IF d >= ReviewThreshold /\ b.review_team # None
                     THEN add_review(rs, "group", b.review_team, "Please review sources")
                     ELSE rs
         IN IF b.repo_checker # None
            THEN add_review(team, "user", b.repo_checker, "Please review build success")
            ELSE team

\* AddReviews that leaves the reviews to the caller
AddReviews_Never(b, rs, d) == rs

\* check_source_submission, lines 123-129: the reviews added to the request
AddReviews(b, rs, d) ==
    IF b.skip_add_reviews
    THEN rs
    ELSE LET team == IF d > ReviewThreshold /\ b.review_team # None
                     THEN add_review(rs, "group", b.review_team, "Please review sources")
                     ELSE rs
         IN IF b.repo_checker # None
            THEN add_review(team, "user", b.repo_checker, "Please review build success")
            ELSE team

\* CheckerResult with the reviews added before the exit status is looked at
CheckerResult_ReviewsFirst(b, rs, msgs, ret, checked, nv) ==
    IF ret # 0
    THEN [ret |-> "False",
          messages |-> [msgs EXCEPT !.declined = <<"Output of check script:">> \o Output(checked)],
          diff |-> -1,
          reviews |-> AddReviews(b, rs, DiffOf(checked, nv))]
    ELSE [ret |-> "True",
          messages |-> [msgs EXCEPT !.accepted = AcceptedMessage(checked)],
          diff |-> DiffOf(checked, nv),
          reviews |-> AddReviews(b, rs, DiffOf(checked, nv))]

\* check_source_submission, lines 102-131: what the exit status and the output
\* of the checker make of the request
CheckerResult(b, rs, msgs, ret, checked, nv) ==
    IF ret # 0
    THEN [ret |-> "False",
          messages |-> [msgs EXCEPT !.declined = <<"Output of check script:">> \o Output(checked)],
          diff |-> -1,
          reviews |-> rs]
    ELSE [ret |-> "True",
          messages |-> [msgs EXCEPT !.accepted = AcceptedMessage(checked)],
          diff |-> DiffOf(checked, nv),
          reviews |-> AddReviews(b, rs, DiffOf(checked, nv))]

\* check_source_submission, lines 87-131: source-checker.pl runs and its exit
\* status and output decide the verdict, the diff and the reviews
source_checker ==
    /\ pc = "source_checker"
    /\ \E ret \in ExitStatuses, checked \in CheckerOutputs :
         LET nv == NewVersion(old_info, new_info)
             r == CheckerResult(bot, reviews, review_messages, ret, checked, nv)
         IN /\ checker' = [ret |-> ret, checked |-> checked]
            /\ new_version' = nv
            /\ evaluated' = Append(evaluated, "classifier")
            /\ review_messages' = r.messages
            /\ diff' = r.diff
            /\ reviews' = r.reviews
            /\ verdict' = Verdict(r.ret)
            /\ declined_by' = (IF r.ret = "False" THEN "classifier" ELSE declined_by)
    /\ pc' = "done"
    /\ UNCHANGED <<bot, request, devel, matches, old_info, new_info, http_errors,
                   sourceinfo,
                   st_vars>>

CheckSourceNext ==
    \/ setup_checker
    \/ check_one_request
    \/ check_action_add_role
    \/ check_action_delete
    \/ check_action__default
    \/ check_devel
    \/ checkout_old
    \/ checkout_new
    \/ source_checker

(***************************************************************************)
(* osc-staging.py                                                          *)
(***************************************************************************)
\* how often an invocation waits for the lock before it gives up
MaxWait == 1

\* the invocations of 'osc staging' running side by side
Procs == {1, 2}

\* the projects: as given with -p, and their full names
ProjectOptions == {"Factory", "openSUSE:Factory", "SLE-12"}
FullProjects == {"openSUSE:Factory", "SUSE:SLE-12"}

\* project.startswith(('openSUSE', 'SUSE'))
StartsWithSUSE(project) == project \in {"openSUSE:Factory", "SUSE:SLE-12"}
\* 'Factory' in project or 'openSUSE' in project
NamesFactory(project) == project \in {"Factory", "openSUSE:Factory"}
\* 'SLE' in project
NamesSLE(project) == project \in {"SLE-12", "SUSE:SLE-12"}
\* 'openSUSE:%s' % project and 'SUSE:%s' % project
Prefixed(prefix, project) ==
    CASE prefix = "openSUSE:" /\ project = "Factory" -> "openSUSE:Factory"
      [] prefix = "SUSE:" /\ project = "SLE-12" -> "SUSE:SLE-12"
      [] OTHER -> project

\* _full_project_name
full_project_name(project) ==
    IF StartsWithSUSE(project) THEN project
    ELSE IF NamesFactory(project) THEN Prefixed("openSUSE:", project)
    ELSE IF NamesSLE(project) THEN Prefixed("SUSE:", project)
    ELSE project

\* the stagings of a project, in short-hand
Stagings == {"A", "B"}
\* the open requests, as given on the command line and as numbers
RequestArgs == {"1", "2"}
RequestIds == {1, 2}
\* int(request_id)
IntOf(s) == CASE s = "1" -> 1 [] s = "2" -> 2

\* the project a request targets (request.actions[0].tgt_project)
TargetOf(s) == "openSUSE:Factory"

\* python's 'in' between a str and the int keys of a dict: never equal
StrEqualsInt(s, k) == FALSE
StrInKeys(s, dict) == \E k \in DOMAIN dict : StrEqualsInt(s, k)

\* the options of do_staging the commands read
NoOpts == [message |-> None, move |-> FALSE, from_ |-> None, filter_by |-> FALSE,
           group_by |-> FALSE, interactive |-> FALSE, add |-> None]

\* the command lines: command, arguments after the command, options
CommandLines ==
    { [cmd |-> "ignore", args |-> a, opts |-> [NoOpts EXCEPT !.message = m]] :
        a \in {<< >>, <<"1">>, <<"1", "2">>}, m \in {None, "later"} }
    \cup { [cmd |-> "unignore", args |-> a, opts |-> NoOpts] : a \in {<<"1">>, <<"all">>} }
    \cup { [cmd |-> "list", args |-> << >>, opts |-> NoOpts] }
    \cup { [cmd |-> "freeze", args |-> <<"A">>, opts |-> NoOpts] }
    \cup { [cmd |-> "unselect", args |-> <<"1">>, opts |-> NoOpts] }
    \cup { [cmd |-> "accept", args |-> <<"A">>, opts |-> NoOpts] }
    \cup { [cmd |-> "select", args |-> a, opts |-> NoOpts] :
             a \in {<<"A", "1">>, <<"B", "1", "2">>, << >>} }
    \cup { [cmd |-> "select", args |-> <<"A", "1">>, opts |-> [NoOpts EXCEPT !.add = "pkg"]],
           [cmd |-> "select", args |-> << >>, opts |-> [NoOpts EXCEPT !.move = TRUE]],
           [cmd |-> "select", args |-> << >>, opts |-> [NoOpts EXCEPT !.interactive = TRUE]],
           [cmd |-> "select", args |-> <<"1", "2">>, opts |-> [NoOpts EXCEPT !.group_by = TRUE]],
           [cmd |-> "select", args |-> <<"A">>, opts |-> [NoOpts EXCEPT !.filter_by = TRUE]] }

\* do_staging, lines 203-228: the least number of arguments of a command
MinArgs(cmd) ==
    CASE cmd \in {"freeze", "frozenage", "repair"} -> 1
      [] cmd \in {"unselect", "ignore", "unignore"} -> 1
      [] OTHER -> 0

\* the locals of an invocation
NoLocals == [requests_ignored |-> << >>, stagings |-> << >>, requests |-> << >>,
             filters |-> << >>, result |-> FALSE, planned |-> << >>,
             proposal |-> << >>, document |-> "none", return_code |-> -1,
             response |-> "none", groups |-> << >>, calls |-> << >>,
             printed |-> << >>, output |-> << >>]

\* the state of the projects before the invocations start
InitialIgnored == {<< >>, 1 :> "old"}
InitialStaged == { [r \in RequestIds |-> "none"], [r \in RequestIds |-> IF r = 1 THEN "A" ELSE "none"] }

\* no invocation of 'osc staging' is running
StagingIdle ==
    /\ lock = [p \in FullProjects |-> 0]
    /\ inv = [i \in Procs |-> [cmd |-> "none", project |-> "Factory", args |-> << >>,
                               opts |-> NoOpts, pc |-> "done", waited |-> 0,
                               mutated |-> FALSE, local |-> NoLocals]]
    /\ ignored = [p \in FullProjects |-> << >>]
    /\ staged = [p \in FullProjects |-> [r \in RequestIds |-> "none"]]
    /\ frozen = [p \in FullProjects |-> {}]
    /\ comments = {}
    /\ additional = [p \in FullProjects |-> {}]

\* the bot is not running
CheckSourceIdle == CheckSourceStart /\ request = << >>

CheckSourceInit == CheckSourceStart /\ request \in Requests /\ StagingIdle

SpecCheckSource == CheckSourceInit /\ [][CheckSourceNext]_vars

\* the invocations are started, each with a command line
StagingInit ==
    /\ CheckSourceIdle
    /\ lock = [p \in FullProjects |-> 0]
    /\ inv \in [Procs -> { [cmd |-> c.cmd, project |-> p, args |-> c.args, opts |-> c.opts,
                            pc |-> "start", waited |-> 0, mutated |-> FALSE,
                            local |-> NoLocals] :
                           c \in CommandLines, p \in ProjectOptions }]
    /\ \E ig \in InitialIgnored, st \in InitialStaged :
         /\ ignored = [p \in FullProjects |-> IF p = "openSUSE:Factory" THEN ig ELSE << >>]
         /\ staged = [p \in FullProjects |->
                        IF p = "openSUSE:Factory" THEN st ELSE [r \in RequestIds |-> "none"]]
    /\ frozen = [p \in FullProjects |-> {}]
    /\ comments = {}
    /\ additional = [p \in FullProjects |-> {}]

\* EnterPc with ignore outside the 'with OBSLock' block
EnterPc_IgnoreUnlocked(cmd) == IF cmd = "ignore" THEN "ignore" ELSE "lock"

\* EnterPc with list outside the 'with OBSLock' block
EnterPc_ListUnlocked(cmd) == IF cmd = "list" THEN "list" ELSE "lock"

\* do_staging, line 239: the position a command starts from once its
\* arguments are accepted; every command runs inside 'with OBSLock'
EnterPc(cmd) == "lock"

\* the first position of the body of a command
BodyPc(cmd) == cmd

\* the positions inside the 'with OBSLock' block
BodyPcs == {"ignore", "ignore_set", "unignore", "list", "freeze", "unselect", "accept",
            "select", "edit", "confirm", "commit", "direct", "unlock"}

\* do_staging, lines 200-239: the argument count is checked, the project name
\* completed, and the command goes for the lock
begin(i) ==
    /\ inv[i].pc = "start"
    /\ IF Len(inv[i].args) < MinArgs(inv[i].cmd)
       THEN inv' = [inv EXCEPT ![i].pc = "wrong_args"]
       ELSE inv' = [inv EXCEPT ![i].project = full_project_name(@),
                               ![i].pc = EnterPc(inv[i].cmd)]
    /\ UNCHANGED <<lock, ignored, staged, frozen, comments, additional, cs_vars>>

\* OBSLock.__enter__: the lock of the project is free and taken
acquire(i) ==
    /\ inv[i].pc = "lock"
    /\ lock[inv[i].project] = 0
    /\ lock' = [lock EXCEPT ![inv[i].project] = i]
    /\ inv' = [inv EXCEPT ![i].pc = BodyPc(inv[i].cmd)]
    /\ UNCHANGED <<ignored, staged, frozen, comments, additional, cs_vars>>

\* OBSLock.__enter__: the lock is held by another invocation; wait
wait(i) ==
    /\ inv[i].pc = "lock"
    /\ lock[inv[i].project] # 0
    /\ inv[i].waited < MaxWait
    /\ inv' = [inv EXCEPT ![i].waited = @ + 1]
    /\ UNCHANGED <<lock, ignored, staged, frozen, comments, additional, cs_vars>>

\* OBSLock.__enter__: the wait is over and the lock still held; the command
\* is aborted
give_up(i) ==
    /\ inv[i].pc = "lock"
    /\ lock[inv[i].project] # 0
    /\ inv[i].waited = MaxWait
    /\ inv' = [inv EXCEPT ![i].pc = "aborted"]
    /\ UNCHANGED <<lock, ignored, staged, frozen, comments, additional, cs_vars>>

\* OBSLock.__exit__: the with block is left and the own lock given back
release(i) ==
    /\ inv[i].pc = "unlock"
    /\ lock' = [lock EXCEPT ![inv[i].project] = IF @ = i THEN 0 ELSE @]
    /\ inv' = [inv EXCEPT ![i].pc = "done"]
    /\ UNCHANGED <<ignored, staged, frozen, comments, additional, cs_vars>>

\* the locals of invocation i with one of them set
SetLocal(i, field, value) == [inv[i].local EXCEPT ![field] = value]

\* dict[key] = value
Put(dict, key, value) ==
    [k \in DOMAIN dict \cup {key} |-> IF k = key THEN value ELSE dict[k]]

\* dict without the keys
Without(dict, keys) == [k \in DOMAIN dict \ keys |-> dict[k]]

(***************************************************************************)
(* osclib/ignore_command.py                                                *)
(***************************************************************************)

\* IgnoreCommand.check_and_comment: True, or why the request is skipped
check_and_comment(project, request_id) ==
    IF TargetOf(request_id) # project THEN "not targeting" ELSE "True"

\* IgnoreCommand.check_and_comment, lines 41-42: the comments it adds
RECURSIVE IgnoreComments(_, _, _)
IgnoreComments(request_ids, project, message) ==
    IF request_ids = << >> THEN {}
    ELSE (IF check_and_comment(project, Head(request_ids)) = "True" /\ Truthy(message)
          THEN {[request_id |-> Head(request_ids), comment |-> message]}
          ELSE {})
         \cup IgnoreComments(Tail(request_ids), project, message)

\* IgnoreCommand.perform, lines 18-24: requests_ignored after the loop
RECURSIVE IgnoreLoop(_, _, _, _)
IgnoreLoop(request_ids, requests_ignored, project, message) ==
    IF request_ids = << >> THEN requests_ignored
    ELSE LET request_id == Head(request_ids)
             next == IF check_and_comment(project, request_id) # "True"
                     THEN requests_ignored
                     ELSE IF ~StrInKeys(request_id, requests_ignored)
                          THEN Put(requests_ignored, IntOf(request_id), message)
                          ELSE requests_ignored
         IN IgnoreLoop(Tail(request_ids), next, project, message)

\* IgnoreCommand.perform, line 15: the ignore list is read
ignore_get(i) ==
    /\ inv[i].pc = "ignore"
    /\ inv' = [inv EXCEPT ![i].local = SetLocal(i, "requests_ignored", ignored[inv[i].project]),
                          ![i].pc = "ignore_set"]
    /\ UNCHANGED <<lock, ignored, staged, frozen, comments, additional, cs_vars>>

\* IgnoreCommand.perform, lines 16-33: the requests are checked, commented and
\* added, and the list is written back when it grew
ignore_set(i) ==
    /\ inv[i].pc = "ignore_set"
    /\ LET p == inv[i].project
           before == inv[i].local.requests_ignored
           after == IgnoreLoop(inv[i].args, before, p, inv[i].opts.message)
           diff_ == Cardinality(DOMAIN after) - Cardinality(DOMAIN before)
           added == IgnoreComments(inv[i].args, p, inv[i].opts.message)
       IN /\ ignored' = (IF diff_ > 0 THEN [ignored EXCEPT ![p] = after] ELSE ignored)
          /\ comments' = comments \cup added
          /\ inv' = [inv EXCEPT ![i].local = SetLocal(i, "requests_ignored", after),
                                ![i].mutated = @ \/ diff_ > 0 \/ added # {},
                                ![i].pc = "unlock"]
    /\ UNCHANGED <<lock, staged, frozen, additional, cs_vars>>

(***************************************************************************)
(* the commands of osc-staging.py whose classes are in osclib              *)
(***************************************************************************)

\* UnignoreCommand.perform: the given requests, or all, leave the ignore list
unignore(i) ==
    /\ inv[i].pc = "unignore"
    /\ LET p == inv[i].project
           after == IF inv[i].args = <<"all">>
                    THEN << >>
                    ELSE Without(ignored[p], { IntOf(inv[i].args[k]) : k \in 1..Len(inv[i].args) })
       IN /\ ignored' = [ignored EXCEPT ![p] = after]
          /\ inv' = [inv EXCEPT ![i].mutated = @ \/ after # ignored[p],
                                ![i].pc = "unlock"]
    /\ UNCHANGED <<lock, staged, frozen, comments, additional, cs_vars>>

\* ListCommand.perform: the requests not staged and not ignored are printed
list(i) ==
    /\ inv[i].pc = "list"
    /\ LET p == inv[i].project
       IN inv' = [inv EXCEPT
                    ![i].local = SetLocal(i, "output",
                        [r \in { q \in RequestIds : staged[p][q] = "none"
                                                     /\ q \notin DOMAIN ignored[p] } |-> "listed"]),
                    ![i].pc = "unlock"]
    /\ UNCHANGED <<lock, ignored, staged, frozen, comments, additional, cs_vars>>

\* FreezeCommand.perform for every project of the arguments
freeze(i) ==
    /\ inv[i].pc = "freeze"
    /\ LET p == inv[i].project
           prjs == { inv[i].args[k] : k \in 1..Len(inv[i].args) }
       IN /\ frozen' = [frozen EXCEPT ![p] = @ \cup prjs]
          /\ inv' = [inv EXCEPT ![i].mutated = @ \/ ~(prjs \subseteq frozen[p]),
                                ![i].pc = "unlock"]
    /\ UNCHANGED <<lock, ignored, staged, comments, additional, cs_vars>>

\* UnselectCommand.perform: the requests go back to the backlog
unselect(i) ==
    /\ inv[i].pc = "unselect"
    /\ LET p == inv[i].project
           ids == { IntOf(inv[i].args[k]) : k \in 1..Len(inv[i].args) }
           after == [r \in RequestIds |->
                        IF r \in ids /\ staged[p][r] \in Stagings THEN "none" ELSE staged[p][r]]
       IN /\ staged' = [staged EXCEPT ![p] = after]
          /\ inv' = [inv EXCEPT ![i].mutated = @ \/ after # staged[p],
                                ![i].pc = "unlock"]
    /\ UNCHANGED <<lock, ignored, frozen, comments, additional, cs_vars>>

\* do_staging, lines 261-289: when totest is in sync the requests of the
\* stagings are accepted (AcceptCommand.perform), else nothing is done
accept(i) ==
    /\ inv[i].pc = "accept"
    /\ \E safe \in BOOLEAN :
         LET p == inv[i].project
             prjs == { inv[i].args[k] : k \in 1..Len(inv[i].args) }
             after == [r \in RequestIds |->
                          IF safe /\ staged[p][r] \in prjs THEN "accepted" ELSE staged[p][r]]
         IN /\ staged' = [staged EXCEPT ![p] = after]
            /\ inv' = [inv EXCEPT ![i].mutated = @ \/ after # staged[p],
                                  ![i].pc = "unlock"]
    /\ UNCHANGED <<lock, ignored, frozen, comments, additional, cs_vars>>

(***************************************************************************)
(* osc-staging.py: select                                                  *)
(***************************************************************************)

\* the full project name of a staging (api.prj_from_short)
StagingProject(project, short) ==
    CASE project = "openSUSE:Factory" /\ short = "A" -> "openSUSE:Factory:Staging:A"
      [] project = "openSUSE:Factory" /\ short = "B" -> "openSUSE:Factory:Staging:B"
      [] project = "SUSE:SLE-12" /\ short = "A" -> "SUSE:SLE-12:Staging:A"
      [] project = "SUSE:SLE-12" /\ short = "B" -> "SUSE:SLE-12:Staging:B"

\* api.extract_staging_short
extract_staging_short(project, arg) ==
    IF arg \in Stagings THEN arg
    ELSE CHOOSE short \in Stagings : StagingProject(project, short) = arg

\* do_staging, lines 294-295: the stagings in short-hand and by full name
existing_stagings(project) ==
    Stagings \cup { StagingProject(project, short) : short \in Stagings }

InSeq(x, seq) == \E k \in 1..Len(seq) : seq[k] = x

\* do_staging, lines 296-313: the arguments are split into stagings and
\* requests
RECURSIVE ClassifyArgs(_, _, _, _)
ClassifyArgs(project, args, stagings, requests) ==
    IF args = << >> THEN [stagings |-> stagings, requests |-> requests]
    ELSE LET arg == Head(args)
         IN IF arg \in existing_stagings(project) /\ ~InSeq(arg, stagings)
            THEN ClassifyArgs(project, Tail(args),
                              Append(stagings, extract_staging_short(project, arg)), requests)
            ELSE IF ~InSeq(arg, requests)
                 THEN ClassifyArgs(project, Tail(args), stagings, Append(requests, arg))
                 ELSE ClassifyArgs(project, Tail(args), stagings, requests)

\* do_staging, line 315: proposal mode, as opposed to direct mode
ProposalMode(stagings, requests, opts) ==
    Len(stagings) # 1 \/ Len(requests) = 0 \/ opts.filter_by \/ opts.group_by

\* Filters with the default filters added only when --filter-by added none
Filters_DefaultsLast(requests, opts) ==
    LET given == IF Len(requests) > 0 THEN <<"requests">> ELSE << >>
        by == IF opts.filter_by THEN <<"filter_by">> ELSE << >>
        default == IF Len(given \o by) = 0 THEN <<"no_add_role_change_devel", "not_ignored">>
                   ELSE << >>
    IN given \o by \o default

\* do_staging, lines 320-328: the filters of the splitter
Filters(requests, opts) ==
    LET given == IF Len(requests) > 0 THEN <<"requests">> ELSE << >>
        default == IF Len(given) = 0 THEN <<"no_add_role_change_devel", "not_ignored">>
                   ELSE << >>
        by == IF opts.filter_by THEN <<"filter_by">> ELSE << >>
    IN given \o default \o by

\* the action type of an open request, and whether the --filter-by expression
\* of the command line holds of it
ActionType(r) == IF r = 2 THEN "add_role" ELSE "submit"
FilterBy(r) == r = 1

\* RequestSplitter: a request passes a filter
Passes(project, requests, r, filter) ==
    CASE filter = "requests" -> \E k \in 1..Len(requests) :
                                    requests[k] \in RequestArgs /\ IntOf(requests[k]) = r
      [] filter = "no_add_role_change_devel" -> ActionType(r) \notin {"add_role", "change_devel"}
      [] filter = "not_ignored" -> r \notin DOMAIN ignored[project]
      [] filter = "filter_by" -> FilterBy(r)

\* RequestSplitter.split: the open requests that pass every filter
Filtered(project, requests, filters) ==
    { r \in RequestIds :
        /\ staged[project][r] = "none"
        /\ \A k \in 1..Len(filters) : Passes(project, requests, r, filters[k]) }

\* RequestSplitter.propose_assignment: the proposals for the filtered
\* requests: one group, or with --group-by one group per request, each with a
\* staging among those considered
Proposals(candidates, considered, group_by) ==
    IF candidates = {} THEN {<< >>}
    ELSE IF ~group_by
         THEN { <<[staging |-> st, requests |-> candidates]>> : st \in considered }
         ELSE { [g \in 1..Cardinality(candidates) |->
                    [staging |-> f[g],
                     requests |-> { r \in candidates :
                                      Cardinality({ q \in candidates : q <= r }) = g }]] :
                f \in [1..Cardinality(candidates) -> considered] }

\* the numbers of a set in ascending and in descending order
RECURSIVE Ascending(_)
Ascending(S) ==
    IF S = {} THEN << >>
    ELSE LET least == CHOOSE x \in S : \A y \in S : x <= y
         IN <<least>> \o Ascending(S \ {least})

RECURSIVE Descending(_)
Descending(S) ==
    IF S = {} THEN << >>
    ELSE LET most == CHOOSE x \in S : \A y \in S : x >= y
         IN <<most>> \o Descending(S \ {most})

\* SortedKeys with the groups taken in descending order
SortedKeys_Descending(proposal) == Descending(DOMAIN proposal)

\* sorted(proposal.keys())
SortedKeys(proposal) == Ascending(DOMAIN proposal)

\* a line do_staging prints
Line(text, arg) == [text |-> text, arg |-> arg]

\* do_staging, lines 293-341: the arguments are classified; in proposal mode
\* the gates before the proposal are passed or the command returns
select(i) ==
    /\ inv[i].pc = "select"
    /\ LET p == inv[i].project
           c == ClassifyArgs(p, inv[i].args, << >>, << >>)
           opts == inv[i].opts
           filters == Filters(c.requests, opts)
           considered == IF Len(c.stagings) = 0 THEN Stagings
                         ELSE { c.stagings[k] : k \in 1..Len(c.stagings) }
           classified == [inv[i].local EXCEPT !.stagings = c.stagings,
                                              !.requests = c.requests]
       IN IF ProposalMode(c.stagings, c.requests, opts)
          THEN IF opts.move \/ Truthy(opts.from_)
               THEN inv' = [inv EXCEPT
                              ![i].local = [classified EXCEPT !.printed =
                                  <<Line("--move and --from must be used with explicit staging and request list", "")>>],
                              ![i].pc = "unlock"]
               ELSE \E result \in BOOLEAN,
                       proposal \in Proposals(Filtered(p, c.requests, filters),
                                              considered, opts.group_by) :
                      inv' = [inv EXCEPT
                         ![i].local = [classified EXCEPT
                                          !.filters = filters,
                                          !.result = result,
                                          !.planned = IF result THEN proposal ELSE << >>,
                                          !.proposal = IF result THEN proposal ELSE << >>,
                                          !.document = IF result THEN "mapping" ELSE "none",
                                          !.printed =
                                             IF ~result
                                             THEN <<Line("Failed to generate proposal", "")>>
                                             ELSE IF Len(proposal) = 0
                                                  THEN <<Line("Empty proposal", "")>>
                                                  ELSE << >>],
                         ![i].pc = IF ~result \/ Len(proposal) = 0 THEN "unlock"
                                   ELSE IF opts.interactive THEN "edit"
                                   ELSE "confirm"]
          ELSE inv' = [inv EXCEPT ![i].local = classified, ![i].pc = "direct"]
    /\ UNCHANGED <<lock, ignored, staged, frozen, comments, additional, cs_vars>>

\* the documents the editor may leave: the proposal as it was, with the
\* requests of a group removed, with the requests of a group moved to another
\* group, with another staging for a group, or nothing at all
Edited(proposal) ==
    {[document |-> "mapping", proposal |-> proposal]}
    \cup { [document |-> "mapping",
            proposal |-> [proposal EXCEPT ![g].requests = {}]] : g \in DOMAIN proposal }
    \cup { [document |-> "mapping",
            proposal |-> [proposal EXCEPT ![g].requests = {},
                                          ![h].requests = @ \cup proposal[g].requests]] :
            <<g, h>> \in { d \in (DOMAIN proposal) \X (DOMAIN proposal) : d[1] # d[2] } }
    \cup { [document |-> "mapping",
            proposal |-> [proposal EXCEPT ![g].staging = st]] :
            g \in DOMAIN proposal, st \in Stagings }
    \cup {[document |-> "none", proposal |-> << >>]}

\* do_staging, lines 343-360: the proposal is edited; the exit status of the
\* editor is not looked at
edit(i) ==
    /\ inv[i].pc = "edit"
    /\ \E return_code \in {0, 1}, e \in Edited(inv[i].local.proposal) :
         inv' = [inv EXCEPT ![i].local = [@ EXCEPT !.proposal = e.proposal,
                                                   !.document = e.document,
                                                   !.return_code = return_code],
                            ![i].pc = "confirm"]
    /\ UNCHANGED <<lock, ignored, staged, frozen, comments, additional, cs_vars>>

\* the answers of the operator to 'Accept proposal? [y/n] (y): '
Responses == {"", "y", "Y", "n", "yes"}

\* response.lower()
Lower(response) == IF response = "Y" THEN "y" ELSE response

\* Accepts taking every answer but 'n' for a yes
Accepts_AllButN(response) == Lower(response) # "n"

\* do_staging, lines 365-366: the answer accepts the proposal
Accepts(response) == ~(Lower(response) # "" /\ Lower(response) # "y")

\* do_staging, lines 362-370: the operator is asked; an empty document has no
\* keys() and the command ends with an AttributeError
confirm(i) ==
    /\ inv[i].pc = "confirm"
    /\ \E response \in Responses :
         IF ~Accepts(response)
         THEN inv' = [inv EXCEPT
                        ![i].local = [@ EXCEPT !.response = response,
                                               !.printed = Append(@, Line("Quit", ""))],
                        ![i].pc = "unlock"]
         ELSE IF inv[i].local.document = "none"
              THEN inv' = [inv EXCEPT ![i].local = [@ EXCEPT !.response = response],
                                      ![i].pc = "unlock"]
              ELSE inv' = [inv EXCEPT
                             ![i].local = [@ EXCEPT
                                             !.response = response,
                                             !.groups = SortedKeys(inv[i].local.proposal)],
                             ![i].pc = "commit"]
    /\ UNCHANGED <<lock, ignored, staged, frozen, comments, additional, cs_vars>>

\* SelectCommand.perform: the requests are put into the staging, or the
\* selection fails and nothing is moved
Selected(st, request_ids, staging, ok) ==
    [r \in RequestIds |-> IF ok /\ r \in request_ids THEN staging ELSE st[r]]

\* do_staging, lines 370-383: the next group of the proposal is selected into
\* its staging; a group without requests is skipped
commit(i) ==
    /\ inv[i].pc = "commit"
    /\ LET p == inv[i].project
           groups == inv[i].local.groups
       IN IF groups = << >>
          THEN /\ inv' = [inv EXCEPT ![i].pc = "unlock"]
               /\ UNCHANGED staged
          ELSE LET g == inv[i].local.proposal[Head(groups)]
               IN IF g.requests = {}
                  THEN /\ inv' = [inv EXCEPT ![i].local = SetLocal(i, "groups", Tail(groups))]
                       /\ UNCHANGED staged
                  ELSE \E ok \in BOOLEAN :
                         LET after == Selected(staged[p], g.requests, g.staging, ok)
                         IN /\ staged' = [staged EXCEPT ![p] = after]
                            /\ inv' = [inv EXCEPT
                                  ![i].local = [@ EXCEPT
                                      !.groups = Tail(groups),
                                      !.printed = Append(@, Line("Staging", g.staging)),
                                      !.calls = Append(@, [group |-> Head(groups),
                                                           staging |-> g.staging,
                                                           requests |-> g.requests,
                                                           ok |-> ok])],
                                  ![i].mutated = @ \/ after # staged[p]]
    /\ UNCHANGED <<lock, ignored, frozen, comments, additional, cs_vars>>

\* the requests the arguments name: by id, or by the package of a request
RequestsOf(requests) ==
    { IntOf(requests[k]) : k \in { j \in 1..Len(requests) : requests[j] \in RequestArgs } }

\* do_staging, lines 384-390: direct mode: the requests are selected into the
\* one staging, or with --add a package is marked for the repo checker
direct(i) ==
    /\ inv[i].pc = "direct"
    /\ LET p == inv[i].project
           target == inv[i].local.stagings[1]
       IN IF Truthy(inv[i].opts.add)
          THEN /\ additional' = [additional EXCEPT ![p] = @ \cup
                     {[staging |-> StagingProject(p, target), package |-> inv[i].opts.add]}]
               /\ staged' = staged
               /\ inv' = [inv EXCEPT ![i].mutated = TRUE, ![i].pc = "unlock"]
          ELSE \E ok \in BOOLEAN :
                 LET after == Selected(staged[p], RequestsOf(inv[i].local.requests), target, ok)
                 IN /\ staged' = [staged EXCEPT ![p] = after]
                    /\ inv' = [inv EXCEPT ![i].mutated = @ \/ after # staged[p],
                                          ![i].pc = "unlock"]
                    /\ UNCHANGED additional
    /\ UNCHANGED <<lock, ignored, frozen, comments, cs_vars>>

StagingNext ==
    \/ \E i \in Procs : begin(i)
    \/ \E i \in Procs : acquire(i)
    \/ \E i \in Procs : wait(i)
    \/ \E i \in Procs : give_up(i)
    \/ \E i \in Procs : release(i)
    \/ \E i \in Procs : ignore_get(i)
    \/ \E i \in Procs : ignore_set(i)
    \/ \E i \in Procs : unignore(i)
    \/ \E i \in Procs : list(i)
    \/ \E i \in Procs : freeze(i)
    \/ \E i \in Procs : unselect(i)
    \/ \E i \in Procs : accept(i)
    \/ \E i \in Procs : select(i)
    \/ \E i \in Procs : edit(i)
    \/ \E i \in Procs : confirm(i)
    \/ \E i \in Procs : commit(i)
    \/ \E i \in Procs : direct(i)

SpecStaging == StagingInit /\ [][StagingNext]_vars

(***************************************************************************)
(* osc-staging.py: one invocation of 'osc staging select' over every       *)
(* argument list up to MaxArgs arguments and every combination of the      *)
(* options select reads                                                    *)
(***************************************************************************)
MaxArgs == 3

\* the arguments of select: stagings in short-hand and by full name, requests
SelectArgs == {"A", "B", "openSUSE:Factory:Staging:A", "1", "2"}
ArgLists == UNION { [1..n -> SelectArgs] : n \in 0..MaxArgs }

\* the options of select
SelectOptions ==
    { [NoOpts EXCEPT !.move = m, !.filter_by = f, !.group_by = g, !.interactive = x] :
        m \in BOOLEAN, f \in BOOLEAN, g \in BOOLEAN, x \in BOOLEAN }
    \cup { [NoOpts EXCEPT !.from_ = "openSUSE:Factory:Staging:B"],
           [NoOpts EXCEPT !.add = "pkg"] }

\* do_staging is entered with the command select
SelectInit ==
    /\ CheckSourceIdle
    /\ lock = [p \in FullProjects |-> 0]
    /\ \E args \in ArgLists, opts \in SelectOptions :
         inv = [i \in Procs |->
                  IF i = 1
                  THEN [cmd |-> "select", project |-> "Factory", args |-> args,
                        opts |-> opts, pc |-> "start", waited |-> 0,
                        mutated |-> FALSE, local |-> NoLocals]
                  ELSE [cmd |-> "none", project |-> "Factory", args |-> << >>,
                        opts |-> NoOpts, pc |-> "done", waited |-> 0,
                        mutated |-> FALSE, local |-> NoLocals]]
    /\ \E ig \in InitialIgnored, st \in InitialStaged :
         /\ ignored = [p \in FullProjects |-> IF p = "openSUSE:Factory" THEN ig ELSE << >>]
         /\ staged = [p \in FullProjects |->
                        IF p = "openSUSE:Factory" THEN st ELSE [r \in RequestIds |-> "none"]]
    /\ frozen = [p \in FullProjects |-> {}]
    /\ comments = {}
    /\ additional = [p \in FullProjects |-> {}]

SelectNext ==
    \/ begin(1)
    \/ acquire(1)
    \/ select(1)
    \/ edit(1)
    \/ confirm(1)
    \/ commit(1)
    \/ direct(1)
    \/ release(1)

SpecSelect == SelectInit /\ [][SelectNext]_vars



(***************************************************************************)
(* Properties of check_source.py                                           *)
(***************************************************************************)
RuleRank(rule) == CASE rule = "single_action" -> 1
                    [] rule = "ownership" -> 2
                    [] rule = "identity" -> 3
                    [] rule = "classifier" -> 4

Rules == {"single_action", "ownership", "identity", "classifier"}

Evaluated(rule) == \E i \in 1..Len(evaluated) : evaluated[i] = rule

\* the request is a single submit action that reached check_source_submission
IsSubmit == Len(request) = 1 /\ request[1].type = "submit"

TeamReview == [by |-> "group", who |-> bot.review_team, msg |-> "Please review sources"]
BuildReview == [by |-> "user", who |-> bot.repo_checker, msg |-> "Please review build success"]

\* C1: the rules run in the order single-action, ownership, identity,
\* classifier exit status; the first rule that declines ends the pipeline: the
\* verdict is declined, the declining rule is the last one evaluated and no
\* review is attached to the request.
C1_ShortCircuit ==
    /\ \A i, j \in 1..Len(evaluated) :
         i < j => RuleRank(evaluated[i]) < RuleRank(evaluated[j])
    /\ (Evaluated("single_action") /\ Len(request) > 1) => declined_by = "single_action"
    /\ (Evaluated("ownership") /\ Truthy(devel[1])
          /\ (request[1].src_project # devel[1] \/ request[1].src_package # devel[2]))
         => declined_by = "ownership"
    /\ (Evaluated("identity") /\ new_info.name # request[1].tgt_package)
         => declined_by = "identity"
    /\ (Evaluated("classifier") /\ checker.ret # 0) => declined_by = "classifier"
    /\ declined_by \in Rules =>
         /\ verdict = "declined"
         /\ pc = "done"
         /\ evaluated[Len(evaluated)] = declined_by
         /\ reviews = {}
         /\ diff = -1

C1_Witness ==
    /\ pc = "done"
    /\ declined_by = "identity"
    /\ evaluated = <<"single_action", "ownership", "identity">>
    /\ reviews = {}

\* C2: with devel checking enabled, a target with a devel relationship
\* declines every submission whose source project or package differs from the
\* devel project and package, naming the devel identity; a target without one
\* declines with 'submit the package to a devel project first' unless the
\* source project is whitelisted or is devel project of a package of the target
C2_Ownership ==
    /\ bot.ignore_devel => ~Evaluated("ownership")
    /\ (IsSubmit /\ ~bot.ignore_devel /\ pc \notin {"setup", "check_one_request", "check_action"})
         => Evaluated("ownership")
    /\ Evaluated("ownership") =>
         IF devel[1] # None
         THEN IF request[1].src_project = devel[1] /\ request[1].src_package = devel[2]
              THEN declined_by # "ownership"
              ELSE /\ declined_by = "ownership"
                   /\ review_messages.declined =
                        <<"Expected submission from devel package", devel[1], devel[2]>>
         ELSE IF \/ request[1].src_project \in WhitelistFileContent(bot.devel_whitelist_file)
                 \/ matches > 0
              THEN declined_by # "ownership"
              ELSE /\ declined_by = "ownership"
                   /\ review_messages.declined[1] = request[1].src_project
                   /\ review_messages.declined[4] =
                        "submit the package to a devel project first"

C2_Witness ==
    /\ declined_by = "ownership"
    /\ devel = <<"devel:tools", "foo">>
    /\ request[1].src_project = "devel:tools"
    /\ request[1].src_package = "bar"

\* C3 as stated: the identity check passes when the declared names of the old
\* and the new snapshot are identical and declines, citing both names, when
\* they differ
C3_OldNewName ==
    Evaluated("identity") =>
        IF old_info.name = new_info.name
        THEN declined_by # "identity"
        ELSE /\ declined_by = "identity"
             /\ \E i \in 1..Len(review_messages.declined) :
                    review_messages.declined[i] = old_info.name
             /\ \E i \in 1..Len(review_messages.declined) :
                    review_messages.declined[i] = new_info.name

\* C3, amended: the identity check passes when the declared name of the new
\* snapshot equals the target package name and declines, citing the target
\* package name and the name found, when it differs
C3_TargetName ==
    Evaluated("identity") =>
        IF new_info.name = request[1].tgt_package
        THEN declined_by # "identity"
        ELSE /\ declined_by = "identity"
             /\ review_messages.declined[2] = request[1].tgt_package
             /\ review_messages.declined[Len(review_messages.declined)] = new_info.name

C3_Witness ==
    /\ declined_by = "identity"
    /\ old_info.name = new_info.name
    /\ new_info.name \in Packages
    /\ new_info.name # request[1].tgt_package

\* C4: an accepted submission with diff m gets the review team's review
\* exactly when m > 8 and the build review whatever m is, unless
\* skip_add_reviews is set, and then it gets neither
C4_Escalation ==
    (IsSubmit /\ verdict = "accepted") =>
        IF bot.skip_add_reviews
        THEN reviews = {}
        ELSE /\ (diff > 8) <=> (\E r \in reviews : r.by = "group" /\ r.who = bot.review_team
                                                    /\ r.msg = "Please review sources")
             /\ \E r \in reviews : r.by = "user" /\ r.who = bot.repo_checker
                                     /\ r.msg = "Please review build success"
             /\ \A r \in reviews : r.who # None

C4_Witness ==
    /\ IsSubmit
    /\ verdict = "accepted"
    /\ diff = 8
    /\ ~bot.skip_add_reviews
    /\ Cardinality(reviews) = 1

\* the DIFFCOUNT line the checker printed last, if it did
LastLine == checker.checked[Len(checker.checked)]
PrintedDiffCount == Len(checker.checked) > 0 /\ LastLine.word = "DIFFCOUNT"

\* the target package did not exist before: its checkout failed
NoTargetPackage == "target_checkout" \in http_errors

\* C5: after a successful checker run the diff is one of the unknown-high
\* values, and the review team is asked, whenever the old version is absent or
\* equals the new version, or the output does not end with a DIFFCOUNT line,
\* or the target package did not exist; the diff is the printed number only
\* when an old version exists, differs from the new one and the last line is
\* a DIFFCOUNT line
C5_Magnitude ==
    (IsSubmit /\ verdict = "accepted") =>
        /\ (\/ old_info.version = None
            \/ old_info.version = new_info.version
            \/ ~PrintedDiffCount
            \/ NoTargetPackage)
             => /\ diff \in {12345, 13579}
                /\ ~bot.skip_add_reviews => TeamReview \in reviews
        /\ diff \notin {12345, 13579}
             => /\ old_info.version # None
                /\ old_info.version # new_info.version
                /\ PrintedDiffCount
                /\ diff = LastLine.n

C5_Witness ==
    /\ IsSubmit
    /\ verdict = "accepted"
    /\ PrintedDiffCount
    /\ LastLine.n = 3
    /\ old_info.version = "1.0"
    /\ new_info.version = "1.0"
    /\ diff = 12345
    /\ TeamReview \in reviews

\* a remote call of the source side, or of the delete handler, failed
SourceSideFailure ==
    http_errors \cap {"source_checkout", "source_parse", "delete_sourceinfo"} # {}

\* C6: a failed remote call never produces a declined verdict: after a failed
\* checkout or parse of the source package, or a failed source info query of a
\* delete request, the request is not declined, no decline message is set and
\* no review is attached; a failed checkout or parse of the target package
\* declines nothing either
C6_NoDeclineOnFailure ==
    /\ SourceSideFailure =>
         /\ verdict # "declined"
         /\ review_messages.declined = DEFAULT_REVIEW_MESSAGES.declined
         /\ reviews = {}
    /\ (pc = "checkout_new" /\ http_errors # {}) =>
         /\ verdict = "pending"
         /\ review_messages.declined = DEFAULT_REVIEW_MESSAGES.declined
         /\ reviews = {}

\* C7 as stated: the validation adds no reviewer and no group to the request
C7_NoReviewAdded == reviews = {}

\* C7, amended: the validation itself adds the reviews, on the accepting path
\* of a submit request only and unless skip_add_reviews is set; a declined,
\* untouched or failed request gets none
C7_ReviewsOnAcceptOnly ==
    /\ reviews # {} => /\ IsSubmit
                       /\ verdict = "accepted"
                       /\ ~bot.skip_add_reviews
                       /\ reviews \subseteq {TeamReview, BuildReview}
    /\ (IsSubmit /\ verdict = "accepted" /\ ~bot.skip_add_reviews) => BuildReview \in reviews

C7_Witness ==
    /\ pc = "done"
    /\ verdict = "accepted"
    /\ reviews = {TeamReview, BuildReview}

\* C8: a delete request is declined, naming project and package of the first
\* 'linked' element, exactly when the source info has such an element, and is
\* accepted as 'Unhandled request type' when it has none; an add_role request
\* is always declined; any other unrecognized action is accepted
C8_OtherActions ==
    (pc = "done" /\ Len(request) = 1) =>
        /\ (request[1].type = "delete" /\ ~sourceinfo.error) =>
             IF Len(sourceinfo.links) >= 1
             THEN /\ verdict = "declined"
                  /\ review_messages.declined =
                       <<"This is an incorrect request, it's a linked package to",
                         sourceinfo.links[1].project, sourceinfo.links[1].package>>
             ELSE /\ verdict = "accepted"
                  /\ review_messages.accepted = <<"Unhandled request type", "delete">>
        /\ request[1].type = "add_role" => verdict = "declined"
        /\ request[1].type \notin {"submit", "delete", "add_role"} =>
             /\ verdict = "accepted"
             /\ review_messages.accepted[1] = "Unhandled request type"

C8_Witness ==
    /\ pc = "done"
    /\ Len(request) = 1
    /\ request[1].type = "delete"
    /\ Len(sourceinfo.links) = 2
    /\ sourceinfo.links[1] # sourceinfo.links[2]
    /\ verdict = "declined"


(***************************************************************************)
(* Properties of osc-staging.py                                            *)
(***************************************************************************)
\* the state the invocations share
shared == <<ignored, staged, frozen, comments, additional>>

MutatingCommands == {"select", "unselect", "accept", "ignore", "unignore", "freeze"}

\* invocation i is inside the body of its command
InBody(i) == inv[i].pc \in BodyPcs

\* two invocations on the same project are never both inside their command
Mutex ==
    \A i, j \in Procs :
        (i # j /\ InBody(i) /\ InBody(j)) => inv[i].project # inv[j].project

\* an invocation that gave up on the lock, or never asked for it, changed nothing
NoLockNoMutation ==
    \A i \in Procs : inv[i].pc \in {"start", "wrong_args", "lock", "aborted"} => ~inv[i].mutated

\* a step that changes the shared state is a step of one invocation that is
\* inside its command and holds the lock of its project
MutationUnderLock ==
    shared' # shared =>
        \E i \in Procs :
            /\ InBody(i)
            /\ lock[inv[i].project] = i
            /\ inv'[i] # inv[i]
            /\ \A j \in Procs \ {i} : inv'[j] = inv[j]

\* C9: select, unselect, accept, ignore, unignore and freeze change the shared
\* staging state and the ignore list only while their invocation holds the
\* lock of the project: two invocations on one project are never inside their
\* commands together, and an invocation that did not get the lock has changed
\* nothing
C9_MutationsUnderLock ==
    [](Mutex /\ NoLockNoMutation) /\ [][MutationUnderLock]_vars

C9_Witness ==
    \E i, j \in Procs :
        /\ i # j
        /\ inv[i].project = inv[j].project
        /\ inv[i].cmd = "ignore" /\ inv[i].mutated /\ inv[i].pc = "unlock"
        /\ inv[j].cmd = "select" /\ inv[j].pc = "aborted"

\* C10 as stated: a list invocation needs no lock: it is never made to wait
\* for the lock and never aborted for it
C10_ListWithoutLock ==
    \A i \in Procs : inv[i].cmd = "list" => inv[i].waited = 0 /\ inv[i].pc # "aborted"

\* C10, amended: a list invocation runs inside the lock like every other
\* command: while it is inside its command it holds the lock of its project
\* and no other invocation on that project is inside its command, and it has
\* printed nothing without the lock
C10_ListUnderLock ==
    \A i \in Procs :
        inv[i].cmd = "list" =>
            /\ InBody(i) =>
                 /\ lock[inv[i].project] = i
                 /\ \A j \in Procs \ {i} : InBody(j) => inv[j].project # inv[i].project
            /\ inv[i].pc \in {"start", "lock", "aborted"} => DOMAIN inv[i].local.output = {}

C10_Witness ==
    \E i, j \in Procs :
        /\ i # j
        /\ inv[i].cmd = "list" /\ inv[i].pc = "lock" /\ inv[i].waited > 0
        /\ inv[j].cmd \in MutatingCommands /\ InBody(j)
        /\ inv[j].project = inv[i].project
        /\ lock[inv[j].project] = j


\* invocation i is a select whose splitter has got its filters
Split(i) == inv[i].cmd = "select" /\ inv[i].local.filters # << >>

\* the filters of invocation i include the default predicates
DefaultsApplied(i) ==
    /\ InSeq("no_add_role_change_devel", inv[i].local.filters)
    /\ InSeq("not_ignored", inv[i].local.filters)

\* the requests of the proposal the planner made for invocation i
Planned(i) == UNION { inv[i].local.planned[g].requests : g \in DOMAIN inv[i].local.planned }

\* C12 as stated: in proposal mode the default predicates (no add_role or
\* change_devel action, not ignored) are applied exactly when the caller gives
\* neither a request list nor a --filter-by expression
C12_DefaultsOnlyWithoutPredicates ==
    \A i \in Procs :
        Split(i) =>
            (DefaultsApplied(i) <=>
                (Len(inv[i].local.requests) = 0 /\ ~inv[i].opts.filter_by))

\* C12: in proposal mode the default predicates are applied exactly when the
\* caller gives no request list; the --filter-by expressions are applied in
\* addition to them or to the request list, and the planner gets only
\* requests that pass the default predicates when these are applied
C12_DefaultsWithoutRequests ==
    \A i \in Procs :
        Split(i) =>
            /\ DefaultsApplied(i) <=> Len(inv[i].local.requests) = 0
            /\ InSeq("requests", inv[i].local.filters) <=> Len(inv[i].local.requests) > 0
            /\ InSeq("filter_by", inv[i].local.filters) <=> inv[i].opts.filter_by
            /\ Len(inv[i].local.requests) = 0 =>
                  \A r \in Planned(i) :
                      /\ ActionType(r) \notin {"add_role", "change_devel"}
                      /\ r \notin DOMAIN ignored[inv[i].project]
            /\ inv[i].opts.filter_by => \A r \in Planned(i) : FilterBy(r)

\* a select with --filter-by and no request list got a proposal: the default
\* predicates were applied next to the expression
C12_Witness ==
    /\ Split(1)
    /\ inv[1].opts.filter_by
    /\ Len(inv[1].local.requests) = 0
    /\ DefaultsApplied(1)
    /\ Planned(1) # {}

\* the editor of invocation i has come back
EditorReturned(i) == inv[i].opts.interactive /\ inv[i].local.return_code # -1

\* the interactive amendment of invocation i was cancelled: the editor failed
\* or left an empty document
Cancelled(i) ==
    /\ EditorReturned(i)
    /\ inv[i].local.return_code # 0 \/ inv[i].local.document = "none"

\* C13: a cancelled interactive amendment (the editor exits with a failure
\* status, or the document comes back empty) aborts the select with no state
\* change: SelectCommand.perform is not called and no request is staged
C13_CancelAborts ==
    \A i \in Procs :
        Cancelled(i) => inv[i].local.calls = << >> /\ ~inv[i].mutated

\* invocation i is a select that has classified its arguments
Classified(i) ==
    /\ inv[i].cmd = "select"
    /\ inv[i].pc \in {"edit", "confirm", "commit", "direct", "unlock", "done"}

\* invocation i is a select that took the proposal branch of line 315
InProposalMode(i) ==
    /\ Classified(i)
    /\ ProposalMode(inv[i].local.stagings, inv[i].local.requests, inv[i].opts)

\* the commit loop of invocation i has run to its end
CommitDone(i) ==
    /\ InProposalMode(i)
    /\ Accepts(inv[i].local.response)
    /\ inv[i].local.document = "mapping"
    /\ inv[i].pc \in {"unlock", "done"}

\* the groups of a proposal that have requests
NonEmptyGroups(proposal) == { g \in DOMAIN proposal : proposal[g].requests # {} }

\* the calls of SelectCommand.perform follow the proposal as it is after the
\* amendment: each call is for a group with requests, with the staging and
\* the requests of that group, the calls come in ascending order of the
\* group keys, and at the end of the loop every group with requests was called
CommitFollowsProposal ==
    \A i \in Procs :
        inv[i].cmd = "select" =>
            LET calls == inv[i].local.calls
                proposal == inv[i].local.proposal
            IN /\ \A k \in DOMAIN calls :
                     /\ calls[k].group \in NonEmptyGroups(proposal)
                     /\ calls[k].staging = proposal[calls[k].group].staging
                     /\ calls[k].requests = proposal[calls[k].group].requests
               /\ \A j \in DOMAIN calls : \A k \in DOMAIN calls :
                     j < k => calls[j].group < calls[k].group
               /\ CommitDone(i) =>
                     { calls[k].group : k \in DOMAIN calls } = NonEmptyGroups(proposal)

\* a step of the commit loop: for a group with requests one call is made and,
\* where it succeeds, the requests of the group are in the staging of the
\* group and every other request is where it was; for a group without
\* requests no call is made and nothing changes
CommitStep ==
    \A i \in Procs :
        (inv[i].pc = "commit" /\ inv'[i] # inv[i]) =>
            LET calls == inv[i].local.calls
                after == inv'[i].local.calls
                p == inv[i].project
            IN IF after = calls
               THEN staged' = staged
               ELSE /\ Len(after) = Len(calls) + 1
                    /\ LET c == after[Len(after)]
                       IN \A r \in RequestIds :
                            staged'[p][r] = IF c.ok /\ r \in c.requests THEN c.staging
                                            ELSE staged[p][r]

\* C14: the commit applies exactly the proposal as amended: the groups are
\* taken in ascending order of their keys, every request of a group with
\* requests is selected into the staging of that group and no other request
\* is touched, and a group emptied during the amendment causes no selection
C14_CommitAppliesProposal == []CommitFollowsProposal /\ [][CommitStep]_vars

\* an amended proposal of two groups was committed, both selections succeeded
C14_Witness ==
    /\ CommitDone(1)
    /\ inv[1].local.proposal # inv[1].local.planned
    /\ Len(inv[1].local.calls) = 2
    /\ inv[1].local.calls[1].ok /\ inv[1].local.calls[2].ok
    /\ \A k \in {1, 2} : \A r \in inv[1].local.calls[k].requests :
          staged[inv[1].project][r] = inv[1].local.calls[k].staging

\* C15: the commit has partial-success semantics: when the selection of a
\* group fails the groups committed before stay committed, and the failure of
\* the group is reported to the operator
C15_FailureReported ==
    \A i \in Procs :
        inv[i].cmd = "select" =>
            \A k \in DOMAIN inv[i].local.calls :
                LET c == inv[i].local.calls[k]
                IN /\ c.ok => \A r \in c.requests : staged[inv[i].project][r] = c.staging
                   /\ ~c.ok => \E j \in DOMAIN inv[i].local.printed :
                                  /\ inv[i].local.printed[j].text \notin {"Staging", "Quit"}
                                  /\ inv[i].local.printed[j].arg = c.staging

\* C16: in proposal mode SelectCommand.perform is called and a request
\* selected only if --move and --from are not given, the planner returned
\* True, its proposal is not empty and the answer to 'Accept proposal?' is
\* empty or 'y' in either case; otherwise the staging state is unchanged
C16_GatesBeforeCommit ==
    \A i \in Procs :
        (InProposalMode(i) /\ (inv[i].mutated \/ inv[i].local.calls # << >>)) =>
            /\ ~inv[i].opts.move
            /\ ~Truthy(inv[i].opts.from_)
            /\ inv[i].local.result
            /\ Len(inv[i].local.planned) > 0
            /\ inv[i].local.response \in {"", "y", "Y"}

\* a proposal was accepted with 'Y' and a request selected
C16_Witness ==
    /\ InProposalMode(1)
    /\ inv[1].mutated
    /\ inv[1].local.response = "Y"
    /\ inv[1].local.result
    /\ ~inv[1].opts.interactive

\* the stagings the arguments name, in short-hand
NamedStagings(project, args) ==
    { extract_staging_short(project, args[k]) :
        k \in { j \in 1..Len(args) : args[j] \in existing_stagings(project) } }

\* the arguments that name no staging
NamedRequests(project, args) ==
    { args[k] : k \in { j \in 1..Len(args) : args[j] \notin existing_stagings(project) } }

\* C17: no argument that names an existing staging is in the request list, the
\* staging list holds each staging once, and direct mode is taken exactly
\* when the arguments name one staging and at least one request and neither
\* --filter-by nor --group-by is given
C17_Classification ==
    \A i \in Procs :
        Classified(i) =>
            LET stagings == inv[i].local.stagings
                requests == inv[i].local.requests
                p == inv[i].project
            IN /\ \A k \in DOMAIN requests : requests[k] \notin existing_stagings(p)
               /\ \A j \in DOMAIN stagings : \A k \in DOMAIN stagings :
                     stagings[j] = stagings[k] => j = k
               /\ ~ProposalMode(stagings, requests, inv[i].opts) <=>
                     /\ Cardinality(NamedStagings(p, inv[i].args)) = 1
                     /\ NamedRequests(p, inv[i].args) # {}
                     /\ ~inv[i].opts.filter_by
                     /\ ~inv[i].opts.group_by

\* invocation i takes the step that ends IgnoreCommand.perform
IgnorePerformed(i) == inv[i].cmd = "ignore" /\ inv[i].pc = "ignore_set" /\ inv'[i].pc = "unlock"

\* C11: ignore is idempotent: the ignore list holds one entry per request id,
\* and an ignore invocation leaves every id that is already in the persisted
\* list as it is, with the message it had, whatever other ids the invocation
\* adds and whatever -m message it is given
C11_IgnoreIdempotent ==
    [][\A i \in Procs :
         IgnorePerformed(i) =>
            \A k \in DOMAIN ignored[inv[i].project] :
                /\ k \in DOMAIN ignored'[inv[i].project]
                /\ ignored'[inv[i].project][k] = ignored[inv[i].project][k]]_vars

====
